---- MODULE Spec2Model ----
(***************************************************************************)
(* Four-way signalised intersection (nese01/traffic_sim).                  *)
(*                                                                         *)
(*   TrafficLight.py  TrafficLight, TrafficLightSet  (signal controller)   *)
(*   Car.py           Car                            (vehicle agent)       *)
(*   Environment.py   Environment                    (simulation engine)   *)
(*                                                                         *)
(* Three specifications share the variables:                               *)
(*   SpecCtl  a TrafficLightSet driven by step(cars) / reset() calls with  *)
(*            arbitrary vehicle lists;                                     *)
(*   SpecCar  Car.step applied to the cars of an arbitrary scene;          *)
(*   Spec     the engine's tick.                                           *)
(***************************************************************************)
EXTENDS Integers, Sequences, FiniteSets, TLC

VARIABLES
  light_set,   \* the TrafficLightSet object (its fields)
  cars,        \* Environment.cars: the list of active Car objects
  env,         \* the Environment's scalar fields (time, counters, flags)
  call,        \* the last operation applied and its arguments
  prev,        \* light_set as it was when the last operation began
  nsteps       \* calls since construction / reset, counted up to MaxSteps

vars == <<light_set, cars, env, call, prev, nsteps>>

----------------------------------------------------------------------------
(* Bounds of the model *)

\* grid_width = grid_height of the modelled intersection
GridSize == 5
\* green durations are drawn from 1..MaxGreen
MaxGreen == 3
\* the yellow duration is drawn from 1..MaxYellow
MaxYellow == 2
\* nsteps counts the first MaxSteps step() calls exactly and then stays
MaxSteps == 6
\* SpecCar applies Car.step at most MaxCarSteps times to a scene
MaxCarSteps == 2
\* Spec: durations of the engine's controller, ticks per run, vehicles per run
MaxEnvGreen == 1
MaxEnvYellow == 1
MaxTime == 6
MaxSpawned == 2
\* Spec: the engine is built without max_cars and simulation_duration, or
\* with max_cars = CapCars and simulation_duration = CapTime
CapCars == 1
CapTime == 2
\* SpecLive: the ticks of a run in which vehicles are spawned, and the
\* vehicles of a run
MaxSpawnTime == 3
MaxLiveSpawned == 4

\* TrafficLightSet.__init__: num_lanes=1
NumLanes == 1

grid_width == GridSize
grid_height == GridSize

\* the two modes TrafficLightSet.step recognises, and one it does not
Modes == {"time_cycle", "detection_cycle"}
AnyMode == Modes \cup {"priority_cycle"}

----------------------------------------------------------------------------
(* TrafficLight.py: TrafficLight *)

\* TrafficLight(position, state, direction)
TrafficLight(position, state, direction) ==
  [position |-> position, state |-> state, direction |-> direction]

\* TrafficLight.set_state
set_state(light, new_state) == [light EXCEPT !.state = new_state]

----------------------------------------------------------------------------
(* TrafficLight.py: TrafficLightSet *)

RECURSIVE ns_lights_from(_, _, _), ew_lights_from(_, _, _)

\* _initialize_lights, the north_south_lights appended for lanes lane..num_lanes-1
ns_lights_from(lane, x_mid, y_mid) ==
  IF lane >= NumLanes THEN <<>>
  ELSE << TrafficLight(<<x_mid + lane, y_mid - NumLanes - 1>>, "GREEN", "NS"),
          TrafficLight(<<x_mid - lane - 1, y_mid + NumLanes>>, "GREEN", "NS") >>
       \o ns_lights_from(lane + 1, x_mid, y_mid)

\* _initialize_lights, the east_west_lights appended for lanes lane..num_lanes-1
ew_lights_from(lane, x_mid, y_mid) ==
  IF lane >= NumLanes THEN <<>>
  ELSE << TrafficLight(<<x_mid - NumLanes - 1, y_mid - lane - 1>>, "RED", "EW"),
          TrafficLight(<<x_mid + NumLanes, y_mid + lane>>, "RED", "EW") >>
       \o ew_lights_from(lane + 1, x_mid, y_mid)

\* TrafficLightSet.__init__ (the detection value is stored unchecked)
TrafficLightSetInit(y_green_time, x_green_time, yellow_time, detection) ==
  [ detection     |-> detection,
    y_green_time  |-> y_green_time,
    x_green_time  |-> x_green_time,
    yellow_time   |-> yellow_time,
    y_turn        |-> TRUE,
    current_timer |-> y_green_time,
    current_state |-> "GREEN",
    north_south_lights |-> ns_lights_from(0, grid_width \div 2, grid_height \div 2),
    east_west_lights   |-> ew_lights_from(0, grid_width \div 2, grid_height \div 2) ]

\* a partial update: only the first light of the list is set
set_all_first_only(lights, state) ==
  [i \in DOMAIN lights |-> IF i = 1 THEN set_state(lights[i], state) ELSE lights[i]]

\* for light in lights: light.set_state(state)
set_all(lights, state) ==
  [i \in DOMAIN lights |-> set_state(lights[i], state)]

\* TrafficLightSet._set_active_lights
set_active_lights(s, state) ==
  IF s.y_turn
  THEN [s EXCEPT !.north_south_lights = set_all(@, state)]
  ELSE [s EXCEPT !.east_west_lights = set_all(@, state)]

\* _time_cycle_step without the set to RED before the axis swap
time_cycle_step_no_red(s) ==
  LET s1 == [s EXCEPT !.current_timer = @ - 1] IN
  IF s1.current_state = "GREEN" /\ s1.current_timer <= 0
  THEN set_active_lights([s1 EXCEPT !.current_state = "YELLOW",
                                    !.current_timer = s1.yellow_time], "YELLOW")
  ELSE IF s1.current_state = "YELLOW" /\ s1.current_timer <= 0
  THEN LET s3 == [s1 EXCEPT !.y_turn = ~@, !.current_state = "GREEN"]
           s4 == [s3 EXCEPT !.current_timer =
                     IF s3.y_turn THEN s3.y_green_time ELSE s3.x_green_time]
       IN set_active_lights(s4, "GREEN")
  ELSE s1

\* _time_cycle_step with the "less than 2" threshold of TrafficLight.global_timer
time_cycle_step_lt2(s) ==
  LET s1 == [s EXCEPT !.current_timer = @ - 1] IN
  IF s1.current_state = "GREEN" /\ s1.current_timer < 2
  THEN set_active_lights([s1 EXCEPT !.current_state = "YELLOW",
                                    !.current_timer = s1.yellow_time], "YELLOW")
  ELSE IF s1.current_state = "YELLOW" /\ s1.current_timer <= 0
  THEN LET s2 == set_active_lights(s1, "RED")
           s3 == [s2 EXCEPT !.y_turn = ~@, !.current_state = "GREEN"]
           s4 == [s3 EXCEPT !.current_timer =
                     IF s3.y_turn THEN s3.y_green_time ELSE s3.x_green_time]
       IN set_active_lights(s4, "GREEN")
  ELSE s1

\* _time_cycle_step that swaps the axes at the end of GREEN, without YELLOW
time_cycle_step_skip_yellow(s) ==
  LET s1 == [s EXCEPT !.current_timer = @ - 1] IN
  IF s1.current_timer <= 0
  THEN LET s2 == set_active_lights(s1, "RED")
           s3 == [s2 EXCEPT !.y_turn = ~@, !.current_state = "GREEN"]
           s4 == [s3 EXCEPT !.current_timer =
                     IF s3.y_turn THEN s3.y_green_time ELSE s3.x_green_time]
       IN set_active_lights(s4, "GREEN")
  ELSE s1

\* TrafficLightSet._time_cycle_step
time_cycle_step(s) ==
  LET s1 == [s EXCEPT !.current_timer = @ - 1] IN
  IF s1.current_state = "GREEN"
  THEN IF s1.current_timer <= 0
       THEN set_active_lights([s1 EXCEPT !.current_state = "YELLOW",
                                         !.current_timer = s1.yellow_time], "YELLOW")
       ELSE s1
  ELSE IF s1.current_state = "YELLOW"
  THEN IF s1.current_timer <= 0
       THEN LET s2 == set_active_lights(s1, "RED")
                s3 == [s2 EXCEPT !.y_turn = ~@, !.current_state = "GREEN"]
                s4 == [s3 EXCEPT !.current_timer =
                          IF s3.y_turn THEN s3.y_green_time ELSE s3.x_green_time]
            IN set_active_lights(s4, "GREEN")
       ELSE s1
  ELSE s1

\* abs()
abs(n) == IF n < 0 THEN -n ELSE n

\* the inner loop of _count_waiting_cars: some light of the list is within 2
\* cells of the car on both coordinates and the car has not moved
near_some_light(car, lights) ==
  \E i \in DOMAIN lights :
     /\ abs(car.position[1] - lights[i].position[1]) <= 2
     /\ abs(car.position[2] - lights[i].position[2]) <= 2
     /\ ~car.has_moved

\* a count without the break: once for every light the car is near
count_from_no_break(k, carlist, lights) ==
  Cardinality({ p \in (k..Len(carlist)) \X DOMAIN lights :
                  near_some_light(carlist[p[1]], <<lights[p[2]]>>) })

RECURSIVE count_from(_, _, _)
\* the outer loop of _count_waiting_cars from index k on
count_from(k, carlist, lights) ==
  IF k > Len(carlist) THEN 0
  ELSE (IF near_some_light(carlist[k], lights) THEN 1 ELSE 0)
       + count_from(k + 1, carlist, lights)

\* TrafficLightSet._count_waiting_cars; arg = [given, cars]: cars=None is
\* given = FALSE, and "not cars" also holds of the empty list
count_waiting_cars(s, arg, direction) ==
  IF ~arg.given \/ Len(arg.cars) = 0 THEN 0
  ELSE count_from(1, arg.cars,
                  IF direction = "NS" THEN s.north_south_lights
                                      ELSE s.east_west_lights)

\* _detection_cycle_step that ends GREEN only on timer expiry
detection_cycle_step_timer_only(s, arg) == time_cycle_step(s)

\* _detection_cycle_step that ends GREEN early whenever the other axis waits
detection_cycle_step_other_only(s, arg) ==
  LET ns_waiting == count_waiting_cars(s, arg, "NS")
      ew_waiting == count_waiting_cars(s, arg, "EW")
      s1 == [s EXCEPT !.current_timer = @ - 1]
      other_waiting == IF s1.y_turn THEN ew_waiting ELSE ns_waiting
  IN
  IF s1.current_state = "GREEN" /\ (other_waiting > 0 \/ s1.current_timer <= 0)
  THEN set_active_lights([s1 EXCEPT !.current_state = "YELLOW",
                                    !.current_timer = s1.yellow_time], "YELLOW")
  ELSE IF s1.current_state = "GREEN" THEN s1
  ELSE time_cycle_step(s)

\* _detection_cycle_step whose YELLOW lasts one step longer
detection_cycle_step_long_yellow(s, arg) ==
  LET ns_waiting == count_waiting_cars(s, arg, "NS")
      ew_waiting == count_waiting_cars(s, arg, "EW")
      s1 == [s EXCEPT !.current_timer = @ - 1]
  IN
  IF s1.current_state = "GREEN"
  THEN LET active_waiting == IF s1.y_turn THEN ns_waiting ELSE ew_waiting
           other_waiting  == IF s1.y_turn THEN ew_waiting ELSE ns_waiting
       IN IF (active_waiting = 0 /\ other_waiting > 0) \/ s1.current_timer <= 0
          THEN set_active_lights([s1 EXCEPT !.current_state = "YELLOW",
                                            !.current_timer = s1.yellow_time],
                                 "YELLOW")
          ELSE s1
  ELSE IF s1.current_state = "YELLOW"
  THEN IF s1.current_timer < 0
       THEN LET s2 == set_active_lights(s1, "RED")
                s3 == [s2 EXCEPT !.y_turn = ~@, !.current_state = "GREEN"]
                s4 == [s3 EXCEPT !.current_timer =
                          IF s3.y_turn THEN s3.y_green_time ELSE s3.x_green_time]
            IN set_active_lights(s4, "GREEN")
       ELSE s1
  ELSE s1

\* _detection_cycle_step that ends GREEN on demand only, never on expiry
detection_cycle_step_demand_only(s, arg) ==
  LET ns_waiting == count_waiting_cars(s, arg, "NS")
      ew_waiting == count_waiting_cars(s, arg, "EW")
      s1 == [s EXCEPT !.current_timer = @ - 1]
  IN
  IF s1.current_state = "GREEN"
  THEN LET active_waiting == IF s1.y_turn THEN ns_waiting ELSE ew_waiting
           other_waiting  == IF s1.y_turn THEN ew_waiting ELSE ns_waiting
       IN IF active_waiting = 0 /\ other_waiting > 0
          THEN set_active_lights([s1 EXCEPT !.current_state = "YELLOW",
                                            !.current_timer = s1.yellow_time],
                                 "YELLOW")
          ELSE s1
  ELSE IF s1.current_state = "YELLOW"
  THEN IF s1.current_timer <= 0
       THEN LET s2 == set_active_lights(s1, "RED")
                s3 == [s2 EXCEPT !.y_turn = ~@, !.current_state = "GREEN"]
                s4 == [s3 EXCEPT !.current_timer =
                          IF s3.y_turn THEN s3.y_green_time ELSE s3.x_green_time]
            IN set_active_lights(s4, "GREEN")
       ELSE s1
  ELSE s1

\* TrafficLightSet._detection_cycle_step
detection_cycle_step(s, arg) ==
  LET ns_waiting == count_waiting_cars(s, arg, "NS")
      ew_waiting == count_waiting_cars(s, arg, "EW")
      s1 == [s EXCEPT !.current_timer = @ - 1]
  IN
  IF s1.current_state = "GREEN"
  THEN LET active_waiting == IF s1.y_turn THEN ns_waiting ELSE ew_waiting
           other_waiting  == IF s1.y_turn THEN ew_waiting ELSE ns_waiting
       IN IF (active_waiting = 0 /\ other_waiting > 0) \/ s1.current_timer <= 0
          THEN set_active_lights([s1 EXCEPT !.current_state = "YELLOW",
                                            !.current_timer = s1.yellow_time],
                                 "YELLOW")
          ELSE s1
  ELSE IF s1.current_state = "YELLOW"
  THEN IF s1.current_timer <= 0
       THEN LET s2 == set_active_lights(s1, "RED")
                s3 == [s2 EXCEPT !.y_turn = ~@, !.current_state = "GREEN"]
                s4 == [s3 EXCEPT !.current_timer =
                          IF s3.y_turn THEN s3.y_green_time ELSE s3.x_green_time]
            IN set_active_lights(s4, "GREEN")
       ELSE s1
  ELSE s1

\* step() that does nothing in detection_cycle mode when no cars are given
light_set_step_needs_cars(s, arg) ==
  IF s.detection = "time_cycle" THEN time_cycle_step(s)
  ELSE IF s.detection = "detection_cycle" /\ arg.given
  THEN detection_cycle_step(s, arg)
  ELSE s

\* TrafficLightSet.step: neither branch is taken for any other detection value
light_set_step(s, arg) ==
  IF s.detection = "time_cycle" THEN time_cycle_step(s)
  ELSE IF s.detection = "detection_cycle" THEN detection_cycle_step(s, arg)
  ELSE s

\* TrafficLightSet.get_all_lights
get_all_lights(s) == s.north_south_lights \o s.east_west_lights

\* reset() that leaves the lights as they are
light_set_reset_keep_lights(s) ==
  [s EXCEPT !.y_turn = TRUE, !.current_timer = s.y_green_time,
            !.current_state = "GREEN"]

\* TrafficLightSet.reset
light_set_reset(s) ==
  [s EXCEPT !.y_turn = TRUE,
            !.current_timer = s.y_green_time,
            !.current_state = "GREEN",
            !.north_south_lights = set_all(@, "GREEN"),
            !.east_west_lights = set_all(@, "RED")]

----------------------------------------------------------------------------
(* Car.py: Car *)

\* Car.__init__
Car(unique_id, position, direction) ==
  [ id |-> unique_id, position |-> position, direction |-> direction,
    speed |-> 1, idle_time |-> 0, has_moved |-> FALSE, completed |-> FALSE ]

\* a move that forgets to raise has_moved
move_forward_no_flag(car) ==
  [car EXCEPT !.position = << @[1] + car.direction[1] * car.speed,
                              @[2] + car.direction[2] * car.speed >>]

\* Car.move_forward
move_forward(car) ==
  [car EXCEPT !.position = << @[1] + car.direction[1] * car.speed,
                              @[2] + car.direction[2] * car.speed >>,
              !.has_moved = TRUE]

\* Car.at_traffic_light
at_traffic_light(car, traffic_light) ==
  /\ car.position[1] = traffic_light.position[1]
  /\ car.position[2] = traffic_light.position[2]

\* an occupancy check that never finds a car ahead
is_position_occupied_never(car, position, other_cars) == FALSE

\* Car.is_position_occupied
is_position_occupied(car, position, other_cars) ==
  \E i \in DOMAIN other_cars :
     /\ other_cars[i].id # car.id
     /\ other_cars[i].position[1] = position[1]
     /\ other_cars[i].position[2] = position[2]

\* the signal check of Car.step stopping on RED only
held_by_light_red_only(car, traffic_lights) ==
  \E i \in DOMAIN traffic_lights :
     /\ at_traffic_light(car, traffic_lights[i])
     /\ traffic_lights[i].state = "RED"

\* the loop of Car.step over the lights: the car stands on a light that is
\* RED or YELLOW
held_by_light(car, traffic_lights) ==
  \E i \in DOMAIN traffic_lights :
     /\ at_traffic_light(car, traffic_lights[i])
     /\ traffic_lights[i].state \in {"RED", "YELLOW"}

\* Car.step
car_step(car, traffic_lights, other_cars) ==
  LET c0 == [car EXCEPT !.has_moved = FALSE]
      next_position == << c0.position[1] + c0.direction[1],
                          c0.position[2] + c0.direction[2] >>
  IN IF is_position_occupied(c0, next_position, other_cars)
     THEN [c0 EXCEPT !.idle_time = @ + 1]
     ELSE IF held_by_light(c0, traffic_lights)
     THEN [c0 EXCEPT !.idle_time = @ + 1]
     ELSE move_forward(c0)

\* an is_off_grid that lets a car stand one cell past the far edges
is_off_grid_gt(car, width, height) ==
  \/ car.position[1] < 0 \/ car.position[1] > width
  \/ car.position[2] < 0 \/ car.position[2] > height

\* Car.is_off_grid, the value it returns
is_off_grid(car, width, height) ==
  \/ car.position[1] < 0 \/ car.position[1] >= width
  \/ car.position[2] < 0 \/ car.position[2] >= height

\* Car.is_off_grid, the car it leaves: completed is set when it returns True
after_is_off_grid(car, width, height) ==
  IF is_off_grid(car, width, height) THEN [car EXCEPT !.completed = TRUE]
  ELSE car

----------------------------------------------------------------------------
(* Environment.py: Environment *)

\* an optional argument of Environment.__init__ (max_cars=None,
\* simulation_duration=None): None, or a number
None == [given |-> FALSE, value |-> 0]
Some(n) == [given |-> TRUE, value |-> n]

\* Environment.__init__: the scalar fields
EnvironmentInit(max_cars, simulation_duration) ==
  [ time |-> 0, car_id_counter |-> 0, total_cars_spawned |-> 0,
    total_cars_completed |-> 0, is_running |-> TRUE,
    max_cars |-> max_cars, simulation_duration |-> simulation_duration ]

----------------------------------------------------------------------------
(* SpecCtl: a TrafficLightSet under arbitrary step(cars) and reset() calls *)

NoArg == [given |-> FALSE, cars |-> <<>>]

\* the cells the vehicles handed to step() stand on
x_mid == grid_width \div 2
y_mid == grid_height \div 2
\* within 2 cells of the west light and of no north-south light
NearEW == << x_mid - NumLanes - 2, y_mid - NumLanes - 2 >>
\* within 2 cells of the south light and of no east-west light
NearNS == << x_mid + NumLanes + 1, y_mid - NumLanes - 2 >>
\* on the west light, within 2 cells of the south light too
NearBoth == << x_mid - NumLanes - 1, y_mid - 1 >>
\* more than 2 cells from every light
Far == << x_mid + NumLanes + 4, y_mid - NumLanes - 5 >>

\* the vehicles handed to step(): a stopped one on each of the four cells
\* and a moving one near each axis
ArgCarList ==
  << Car(0, NearEW, <<1, 0>>), Car(1, NearNS, <<0, 1>>),
     Car(2, NearBoth, <<1, 0>>), Car(3, Far, <<0, 1>>),
     [Car(4, NearEW, <<1, 0>>) EXCEPT !.has_moved = TRUE],
     [Car(5, NearNS, <<0, 1>>) EXCEPT !.has_moved = TRUE] >>

\* every list of some of these vehicles
ArgLists ==
  { SelectSeq(ArgCarList, LAMBDA c : c.id \in ids) :
       ids \in SUBSET { ArgCarList[i].id : i \in DOMAIN ArgCarList } }

StepArgs == {NoArg} \cup { [given |-> TRUE, cars |-> l] : l \in ArgLists }

InitCtl ==
  /\ light_set \in { TrafficLightSetInit(gy, gx, y, d) :
                        gy \in 1..MaxGreen, gx \in 1..MaxGreen,
                        y \in 1..MaxYellow, d \in AnyMode }
  /\ cars = <<>>
  /\ env = EnvironmentInit(None, None)
  /\ call = [op |-> "init", arg |-> NoArg, idx |-> 0]
  /\ prev = light_set
  /\ nsteps = 0

\* light_set.step(cars)
CtlStep ==
  \E arg \in StepArgs :
     /\ light_set' = light_set_step(light_set, arg)
     /\ call' = [op |-> "step", arg |-> arg, idx |-> 0,
                 \* the states in a row that have shown YELLOW, up to the
                 \* state after this call or, when it ended YELLOW, before it
                 yellow_steps |->
                   LET before == IF call.op = "step" THEN call.yellow_steps ELSE 0
                   IN IF light_set_step(light_set, arg).current_state = "YELLOW"
                      THEN IF light_set.current_state = "YELLOW"
                           THEN before + 1 ELSE 1
                      ELSE IF light_set.current_state = "YELLOW"
                           THEN before ELSE 0,
                 \* the same for GREEN, the state after construction or
                 \* reset() being the first of its run; counted up to
                 \* MaxGreen + 1
                 green_steps |->
                   LET before == IF call.op = "step" THEN call.green_steps ELSE 1
                   IN IF light_set_step(light_set, arg).current_state = "GREEN"
                      THEN IF light_set.current_state = "GREEN"
                           THEN (IF before > MaxGreen THEN before ELSE before + 1)
                           ELSE 1
                      ELSE IF light_set.current_state = "GREEN"
                           THEN before ELSE 0]
     /\ prev' = light_set
     /\ nsteps' = IF nsteps < MaxSteps THEN nsteps + 1 ELSE nsteps
     /\ UNCHANGED <<cars, env>>

\* light_set.reset()
CtlReset ==
  /\ light_set' = light_set_reset(light_set)
  /\ call' = [op |-> "reset", arg |-> NoArg, idx |-> 0]
  /\ prev' = light_set
  /\ nsteps' = 0
  /\ UNCHANGED <<cars, env>>

NextCtl == CtlStep \/ CtlReset

SpecCtl == InitCtl /\ [][NextCtl]_vars

\* SpecCtlLive: step() keeps being called, and nothing else is; the
\* collections are the absent one and the lists of two stopped vehicles, one
\* near each axis
LiveArgs ==
  {NoArg} \cup { [given |-> TRUE, cars |-> l] :
                   l \in { SelectSeq(ArgCarList, LAMBDA c : c.id \in ids) :
                             ids \in SUBSET { ArgCarList[1].id, ArgCarList[2].id } } }

InitCtlLive ==
  /\ light_set \in { TrafficLightSetInit(gy, gx, y, d) :
                        gy \in 1..MaxGreen, gx \in 1..MaxGreen,
                        y \in 1..MaxYellow, d \in Modes }
  /\ cars = <<>>
  /\ env = EnvironmentInit(None, None)
  /\ call = [op |-> "init", arg |-> NoArg, idx |-> 0]
  /\ prev = light_set
  /\ nsteps = 0

\* light_set.step(cars)
CtlStepLive ==
  \E arg \in LiveArgs :
     /\ light_set' = light_set_step(light_set, arg)
     /\ call' = [op |-> "step", arg |-> arg, idx |-> 0,
                 \* the states in a row with the same active axis, counted
                 \* up to MaxGreen + MaxYellow + 1
                 axis_steps |->
                   LET before == IF call.op = "step" THEN call.axis_steps ELSE 1
                   IN IF light_set_step(light_set, arg).y_turn = light_set.y_turn
                      THEN (IF before > MaxGreen + MaxYellow THEN before
                                                             ELSE before + 1)
                      ELSE 1]
     /\ prev' = light_set
     /\ nsteps' = IF nsteps < MaxSteps THEN nsteps + 1 ELSE nsteps
     /\ UNCHANGED <<cars, env>>

SpecCtlLive == InitCtlLive /\ [][CtlStepLive]_vars /\ WF_vars(CtlStepLive)

----------------------------------------------------------------------------
(* Entry directions and lanes of the engine *)

North == <<0, 1>>
South == <<0, -1>>
East  == <<1, 0>>
West  == <<-1, 0>>

\* the four entry directions, in the order the spawn phase visits them
DirectionOrder == << North, South, East, West >>
Directions == { DirectionOrder[i] : i \in DOMAIN DirectionOrder }

\* the edge cell where a vehicle of a direction and lane enters: the first
\* cell of the approach on which _initialize_lights puts that lane's light
entry_cell(direction, lane) ==
  IF direction = North THEN << x_mid + lane, 0 >>
  ELSE IF direction = South THEN << x_mid - lane - 1, grid_height - 1 >>
  ELSE IF direction = East THEN << 0, y_mid - lane - 1 >>
  ELSE << grid_width - 1, y_mid + lane >>

\* the in-grid cells of a lane
LaneCells(direction, lane) ==
  { << entry_cell(direction, lane)[1] + k * direction[1],
       entry_cell(direction, lane)[2] + k * direction[2] >> :
       k \in 0..(GridSize - 1) }

----------------------------------------------------------------------------
(* SpecCar: Car.step applied to the cars of a scene *)

Colours == {"RED", "YELLOW", "GREEN"}

\* a vehicle somewhere on a lane of its direction
SceneCars(id) ==
  UNION { { [Car(id, p, d) EXCEPT !.has_moved = m] :
               p \in LaneCells(d, 0), m \in BOOLEAN } : d \in Directions }

\* two vehicles on different cells, and the lights of each axis in any colour
\* (Car.step takes the list of lights as an argument)
InitCar ==
  /\ \E ns \in Colours, ew \in Colours :
        light_set =
           [TrafficLightSetInit(1, 1, 1, "time_cycle") EXCEPT
               !.north_south_lights = set_all(@, ns),
               !.east_west_lights = set_all(@, ew)]
  /\ \E a \in SceneCars(0), b \in SceneCars(1) :
        /\ a.position # b.position
        /\ cars = <<a, b>>
  /\ env = EnvironmentInit(None, None)
  /\ call = [op |-> "init", arg |-> NoArg, idx |-> 0]
  /\ prev = light_set
  /\ nsteps = 0

\* cars[i].step(lights, cars)
CarStepCall ==
  \E i \in DOMAIN cars :
     /\ nsteps < MaxCarSteps
     /\ cars' = [cars EXCEPT ![i] = car_step(cars[i], get_all_lights(light_set), cars)]
     /\ call' = [op |-> "car_step", arg |-> [given |-> TRUE, cars |-> cars], idx |-> i]
     /\ nsteps' = nsteps + 1
     /\ UNCHANGED <<light_set, env, prev>>

NextCar == CarStepCall

SpecCar == InitCar /\ [][NextCar]_vars

----------------------------------------------------------------------------
(* Spec: the engine, Environment.step and Environment.reset *)

\* Environment.is_position_occupied
env_is_position_occupied(cs, position) ==
  \E i \in DOMAIN cs :
     cs[i].position[1] = position[1] /\ cs[i].position[2] = position[2]

\* the idle time of completed cars that Environment keeps: it has no field
\* for it, and remove_completed_cars counts a car and drops it with its
\* idle_time
cumulative_idle_of_completed(e) == 0

\* a spawn that does not look whether the entry cell is free
spawn_car_unchecked(st, spawn_position, direction) ==
  [ env  |-> [st.env EXCEPT !.car_id_counter = @ + 1,
                            !.total_cars_spawned = @ + 1],
    cars |-> Append(st.cars,
                    Car(st.env.car_id_counter, spawn_position, direction)) ]

\* a spawn that forgets to advance the id counter
spawn_car_same_id(st, spawn_position, direction) ==
  IF ~env_is_position_occupied(st.cars, spawn_position)
  THEN [ env  |-> [st.env EXCEPT !.total_cars_spawned = @ + 1],
         cars |-> Append(st.cars,
                         Car(st.env.car_id_counter, spawn_position, direction)) ]
  ELSE st

\* a spawn that does not count the car it creates
spawn_car_uncounted(st, spawn_position, direction) ==
  IF ~env_is_position_occupied(st.cars, spawn_position)
  THEN [ env  |-> [st.env EXCEPT !.car_id_counter = @ + 1],
         cars |-> Append(st.cars,
                         Car(st.env.car_id_counter, spawn_position, direction)) ]
  ELSE st

\* Environment.spawn_car at one entry cell; st = [env, cars]
spawn_car(st, spawn_position, direction) ==
  IF ~env_is_position_occupied(st.cars, spawn_position)
  THEN [ env  |-> [st.env EXCEPT !.car_id_counter = @ + 1,
                                 !.total_cars_spawned = @ + 1],
         cars |-> Append(st.cars,
                         Car(st.env.car_id_counter, spawn_position, direction)) ]
  ELSE st

RECURSIVE spawn_lanes(_, _, _)
\* one direction's successful trial: a spawn attempt on each lane's entry cell
spawn_lanes(st, direction, lane) ==
  IF lane >= NumLanes THEN st
  ELSE spawn_lanes(spawn_car(st, entry_cell(direction, lane), direction),
                   direction, lane + 1)

RECURSIVE spawn_phase(_, _, _)
\* the spawn phase: the directions from the k-th on, successes being the
\* directions whose Bernoulli trial succeeded in this tick
spawn_phase(st, k, successes) ==
  IF k > Len(DirectionOrder) THEN st
  ELSE spawn_phase(IF DirectionOrder[k] \in successes
                   THEN spawn_lanes(st, DirectionOrder[k], 0) ELSE st,
                   k + 1, successes)

\* the argument of the controller's step in Environment.step:
\* self.traffic_light.step() passes none, whatever the vehicles cs are
step_argument(cs) == NoArg

\* self.traffic_light.step()
controller_update(s, cs) == light_set_step(s, step_argument(cs))

RECURSIVE step_cars(_, _, _)
\* for car in self.cars: car.step(lights, self.cars), from the k-th car on;
\* every car reads the list as the cars before it have left it (the list
\* after the k-th step is bound as a value n before the loop goes on)
step_cars(k, cs, lights) ==
  IF k > Len(cs) THEN cs
  ELSE CHOOSE r \in { step_cars(k + 1, n, lights) :
                        n \in { [cs EXCEPT ![k] = car_step(cs[k], lights, cs)] } } :
         TRUE

\* a removal that counts the completed cars and keeps them in the list
remove_completed_cars_keep_all(st) ==
  LET checked == [i \in DOMAIN st.cars |->
                    after_is_off_grid(st.cars[i], grid_width, grid_height)]
  IN [ env  |-> [st.env EXCEPT !.total_cars_completed =
                   @ + Cardinality({ i \in DOMAIN st.cars :
                          is_off_grid(st.cars[i], grid_width, grid_height) })],
       cars |-> checked,
       removed |-> <<>> ]

\* a removal that counts one completed car per call, however many leave
remove_completed_cars_count_one(st) ==
  LET checked == [i \in DOMAIN st.cars |->
                    after_is_off_grid(st.cars[i], grid_width, grid_height)]
  IN [ env  |-> [st.env EXCEPT !.total_cars_completed =
                   @ + (IF \E i \in DOMAIN st.cars :
                             is_off_grid(st.cars[i], grid_width, grid_height)
                        THEN 1 ELSE 0)],
       cars |-> SelectSeq(checked,
                          LAMBDA c : ~is_off_grid(c, grid_width, grid_height)),
       removed |-> SelectSeq(checked,
                             LAMBDA c : is_off_grid(c, grid_width, grid_height)) ]

\* Environment.remove_completed_cars: is_off_grid is called on every car;
\* cars = cars_to_keep, removed = the cars the call drops, as it leaves them
remove_completed_cars(st) ==
  LET checked == [i \in DOMAIN st.cars |->
                    after_is_off_grid(st.cars[i], grid_width, grid_height)]
  IN [ env  |-> [st.env EXCEPT !.total_cars_completed =
                   @ + Cardinality({ i \in DOMAIN st.cars :
                          is_off_grid(st.cars[i], grid_width, grid_height) })],
       cars |-> SelectSeq(checked,
                          LAMBDA c : ~is_off_grid(c, grid_width, grid_height)),
       removed |-> SelectSeq(checked,
                             LAMBDA c : is_off_grid(c, grid_width, grid_height)) ]

RECURSIVE sum_idle_time(_, _)
\* sum(car.idle_time for car in self.cars), from the k-th car on
sum_idle_time(k, cs) ==
  IF k > Len(cs) THEN 0 ELSE cs[k].idle_time + sum_idle_time(k + 1, cs)

\* Environment.get_average_idle_time: the quotient total_idle / len(cars)
\* as numerator and denominator, 0.0 as 0 / 1
get_average_idle_time(cs) ==
  IF Len(cs) = 0 THEN [num |-> 0, den |-> 1]
  ELSE [num |-> sum_idle_time(1, cs), den |-> Len(cs)]

\* Environment.get_total_idle_time
get_total_idle_time(cs) == sum_idle_time(1, cs)

\* the colour an axis shows, read from its first signal
axis_light_state(lights) == lights[1].state

\* Environment.get_statistics; the one 'traffic_light_state' entry of the
\* single-signal engine is reported per axis
get_statistics(e, cs, s) ==
  [ time                 |-> e.time,
    total_cars_active    |-> Len(cs),
    total_cars_spawned   |-> e.total_cars_spawned,
    total_cars_completed |-> e.total_cars_completed,
    average_idle_time    |-> get_average_idle_time(cs),
    total_idle_time      |-> get_total_idle_time(cs),
    ns_light_state       |-> axis_light_state(s.north_south_lights),
    ew_light_state       |-> axis_light_state(s.east_west_lights),
    cars_moving          |-> Cardinality({i \in DOMAIN cs : cs[i].has_moved}),
    cars_stopped         |-> Cardinality({i \in DOMAIN cs : ~cs[i].has_moved}) ]

\* grid value of a signal cell; a cell keeps its value v for any other state
light_code(state, v) ==
  CASE state = "RED"    -> 2
    [] state = "YELLOW" -> 3
    [] state = "GREEN"  -> 4
    [] OTHER            -> v

\* for car in self.cars: grid[y, x] = 1 (cells of the grid only)
cars_layer(cs, cell) ==
  IF \E i \in DOMAIN cs : cs[i].position = cell THEN 1 ELSE 0

RECURSIVE lights_layer(_, _, _, _)
\* the signals painted over the value v of a cell, from the k-th signal on
lights_layer(k, lights, cell, v) ==
  IF k > Len(lights) THEN v
  ELSE lights_layer(k + 1, lights, cell,
                    IF lights[k].position = cell
                    THEN light_code(lights[k].state, v) ELSE v)

\* the vehicles painted over the signals
get_grid_state_cars_on_top(cs, s) ==
  [y \in 0..(grid_height - 1) |->
     [x \in 0..(grid_width - 1) |->
        IF cars_layer(cs, <<x, y>>) = 1 THEN 1
        ELSE lights_layer(1, get_all_lights(s), <<x, y>>, 0)]]

\* Environment.get_grid_state: grid[y][x], vehicles first, signals on top
get_grid_state(cs, s) ==
  [y \in 0..(grid_height - 1) |->
     [x \in 0..(grid_width - 1) |->
        lights_layer(1, get_all_lights(s), <<x, y>>,
                     cars_layer(cs, <<x, y>>))]]

Init ==
  /\ light_set \in { TrafficLightSetInit(gy, gx, y, d) :
                        gy \in 1..MaxEnvGreen, gx \in 1..MaxEnvGreen,
                        y \in 1..MaxEnvYellow, d \in AnyMode }
  /\ cars = <<>>
  /\ env \in { EnvironmentInit(None, None),
                EnvironmentInit(Some(CapCars), Some(CapTime)) }
  /\ call = [op |-> "init", arg |-> NoArg, idx |-> 0]
  /\ prev = light_set
  /\ nsteps = 0

\* a tick that moves the vehicles before it spawns
Tick_spawn_last ==
  \E successes \in SUBSET Directions :
     /\ env.time < MaxTime
     /\ LET lights  == controller_update(light_set, cars)
            moved   == step_cars(1, cars, get_all_lights(lights))
            spawned == spawn_phase([env |-> env, cars |-> moved], 1, successes)
            kept    == remove_completed_cars(spawned)
        IN /\ spawned.env.total_cars_spawned <= MaxSpawned
           /\ light_set' = lights
           /\ cars' = kept.cars
           /\ env' = [kept.env EXCEPT !.time = @ + 1]
           /\ call' = [op |-> "tick", arg |-> [given |-> TRUE, cars |-> cars],
                       idx |-> 0, env |-> env, successes |-> successes,
                       step_argument |-> step_argument(cars),
                       spawned |-> spawned, removed |-> kept.removed]
     /\ prev' = light_set
     /\ UNCHANGED nsteps

\* Environment.step; successes = the directions whose spawn trial succeeds.
\* call keeps the vehicles, the counters and the trial outcomes the tick
\* started from, the argument it handed to the controller's step, the
\* vehicles and counters its spawn phase left and the vehicles it removed.
Tick ==
  \E successes \in SUBSET Directions :
     /\ env.time < MaxTime
     /\ LET lights  == controller_update(light_set, cars)
            spawned == spawn_phase([env |-> env, cars |-> cars], 1, successes)
            moved   == step_cars(1, spawned.cars, get_all_lights(lights))
            kept    == remove_completed_cars([env |-> spawned.env, cars |-> moved])
        IN /\ spawned.env.total_cars_spawned <= MaxSpawned
           /\ light_set' = lights
           /\ cars' = kept.cars
           /\ env' = [kept.env EXCEPT !.time = @ + 1]
           /\ call' = [op |-> "tick", arg |-> [given |-> TRUE, cars |-> cars],
                       idx |-> 0, env |-> env, successes |-> successes,
                       step_argument |-> step_argument(cars),
                       spawned |-> spawned, removed |-> kept.removed]
     /\ prev' = light_set
     /\ UNCHANGED nsteps

\* a reset that keeps the id counter running
EnvReset_keep_ids ==
  /\ cars' = <<>>
  /\ light_set' = light_set_reset(light_set)
  /\ env' = [env EXCEPT !.time = 0,
                        !.total_cars_spawned = 0, !.total_cars_completed = 0]
  /\ call' = [op |-> "reset", arg |-> NoArg, idx |-> 0, env |-> env]
  /\ prev' = light_set
  /\ UNCHANGED nsteps

\* Environment.reset
EnvReset ==
  /\ cars' = <<>>
  /\ light_set' = light_set_reset(light_set)
  /\ env' = [env EXCEPT !.time = 0, !.car_id_counter = 0,
                        !.total_cars_spawned = 0, !.total_cars_completed = 0]
  /\ call' = [op |-> "reset", arg |-> NoArg, idx |-> 0, env |-> env]
  /\ prev' = light_set
  /\ UNCHANGED nsteps

\* a call of Environment.get_statistics
GetStatistics ==
  /\ call' = [op |-> "get_statistics", arg |-> NoArg, idx |-> 0,
              before |-> [light_set |-> light_set, cars |-> cars, env |-> env],
              result |-> get_statistics(env, cars, light_set)]
  /\ prev' = light_set
  /\ UNCHANGED <<light_set, cars, env, nsteps>>

\* a call of Environment.get_grid_state
GetGridState ==
  /\ call' = [op |-> "get_grid_state", arg |-> NoArg, idx |-> 0,
              before |-> [light_set |-> light_set, cars |-> cars, env |-> env],
              result |-> get_grid_state(cars, light_set)]
  /\ prev' = light_set
  /\ UNCHANGED <<light_set, cars, env, nsteps>>

Next == Tick \/ EnvReset

Spec == Init /\ [][Next]_vars

\* the engine with its two read-only queries called between the ticks
InitObs ==
  /\ light_set \in { TrafficLightSetInit(gy, gx, y, "time_cycle") :
                        gy \in 1..MaxEnvGreen, gx \in 1..MaxEnvGreen,
                        y \in 1..MaxEnvYellow }
  /\ cars = <<>>
  /\ env = EnvironmentInit(None, None)
  /\ call = [op |-> "init", arg |-> NoArg, idx |-> 0]
  /\ prev = light_set
  /\ nsteps = 0

NextObs == Tick \/ EnvReset \/ GetStatistics \/ GetGridState

SpecObs == InitObs /\ [][NextObs]_vars

----------------------------------------------------------------------------
(* Properties of the signal controller (SpecCtl) *)

\* every light of the list shows the colour
AllShow(lights, colour) == \A i \in DOMAIN lights : lights[i].state = colour

\* the positions of the lights of a list, in order
PositionsOf(lights) == [i \in DOMAIN lights |-> lights[i].position]

\* Chebyshev distance of two cells
Chebyshev(p, q) ==
  LET dx == IF p[1] >= q[1] THEN p[1] - q[1] ELSE q[1] - p[1]
      dy == IF p[2] >= q[2] THEN p[2] - q[2] ELSE q[2] - p[2]
  IN IF dx >= dy THEN dx ELSE dy

\* the vehicles of a step() argument that wait on an axis: hasMoved is false
\* and some signal of the axis is within Chebyshev distance 2
WaitingOn(s, arg, axis) ==
  IF ~arg.given THEN 0
  ELSE Cardinality({ i \in DOMAIN arg.cars :
         /\ ~arg.cars[i].has_moved
         /\ \E j \in DOMAIN get_all_lights(s) :
               /\ get_all_lights(s)[j].direction = axis
               /\ Chebyshev(arg.cars[i].position,
                            get_all_lights(s)[j].position) <= 2 })

ActiveAxis(s) == IF s.y_turn THEN "NS" ELSE "EW"
InactiveAxis(s) == IF s.y_turn THEN "EW" ELSE "NS"
ActiveLights(s) == IF s.y_turn THEN s.north_south_lights ELSE s.east_west_lights
InactiveLights(s) == IF s.y_turn THEN s.east_west_lights ELSE s.north_south_lights

\* C1: mutual exclusion: never are some north-south signal and some
\* east-west signal both non-RED, whatever step() and reset() calls were
\* made, in any mode and for any vehicle lists.
C1_MutualExclusion ==
  ~ ( /\ \E i \in DOMAIN light_set.north_south_lights :
            light_set.north_south_lights[i].state # "RED"
      /\ \E j \in DOMAIN light_set.east_west_lights :
            light_set.east_west_lights[j].state # "RED" )

\* a step in a recognised mode has just handed the green to east-west
C1_Witness ==
  /\ call.op = "step"
  /\ prev.y_turn /\ prev.current_state = "YELLOW"
  /\ AllShow(light_set.east_west_lights, "GREEN")
  /\ AllShow(light_set.north_south_lights, "RED")

\* C3: atomic axis update: after every step() and reset() all signals of an
\* axis show one colour: the controller's phase on the active axis, RED on
\* the inactive axis.
C3_AtomicAxisUpdate ==
  /\ AllShow(ActiveLights(light_set), light_set.current_state)
  /\ AllShow(InactiveLights(light_set), "RED")

\* a step has just turned both east-west signals YELLOW
C3_Witness ==
  /\ call.op = "step"
  /\ ~light_set.y_turn
  /\ prev.current_state = "GREEN" /\ light_set.current_state = "YELLOW"
  /\ Len(light_set.east_west_lights) >= 2
  /\ AllShow(light_set.east_west_lights, "YELLOW")

\* the state a time_cycle controller with durations Gns, Gew, Y is in after
\* n <= Gns + Y steps from the initial state
C4_AfterSteps ==
  LET Gns == light_set.y_green_time
      Gew == light_set.x_green_time
      Y   == light_set.yellow_time
      n   == nsteps
  IN /\ n < Gns =>
          /\ light_set.y_turn /\ light_set.current_state = "GREEN"
          /\ light_set.current_timer = Gns - n
          /\ AllShow(light_set.north_south_lights, "GREEN")
          /\ AllShow(light_set.east_west_lights, "RED")
     /\ (Gns <= n /\ n < Gns + Y) =>
          /\ light_set.y_turn /\ light_set.current_state = "YELLOW"
          /\ light_set.current_timer = Y - (n - Gns)
          /\ AllShow(light_set.north_south_lights, "YELLOW")
          /\ AllShow(light_set.east_west_lights, "RED")
     /\ n = Gns + Y =>
          /\ ~light_set.y_turn /\ light_set.current_state = "GREEN"
          /\ light_set.current_timer = Gew
          /\ AllShow(light_set.north_south_lights, "RED")
          /\ AllShow(light_set.east_west_lights, "GREEN")

\* one time_cycle step from prev to light_set: GREEN ends exactly when the
\* decremented timer is 0 or below, and so does YELLOW
C4_OneStep ==
  LET t == prev.current_timer - 1 IN
  /\ (prev.current_state = "GREEN" /\ t > 0) =>
        light_set = [prev EXCEPT !.current_timer = t]
  /\ (prev.current_state = "GREEN" /\ t <= 0) =>
        /\ light_set.current_state = "YELLOW"
        /\ light_set.current_timer = prev.yellow_time
        /\ light_set.y_turn = prev.y_turn
        /\ AllShow(ActiveLights(light_set), "YELLOW")
        /\ InactiveLights(light_set) = InactiveLights(prev)
  /\ (prev.current_state = "YELLOW" /\ t > 0) =>
        light_set = [prev EXCEPT !.current_timer = t]
  /\ (prev.current_state = "YELLOW" /\ t <= 0) =>
        /\ light_set.current_state = "GREEN"
        /\ light_set.y_turn = ~prev.y_turn
        /\ light_set.current_timer =
              IF light_set.y_turn THEN prev.y_green_time ELSE prev.x_green_time
        /\ AllShow(ActiveLights(light_set), "GREEN")
        /\ AllShow(InactiveLights(light_set), "RED")

\* C4: fixed-cycle timing: in time_cycle mode the phase stays GREEN until the
\* step that decrements the timer to 0 or below (the Gns-th step from the
\* initial state), then is YELLOW with timer Y; Y steps later the active
\* signals are RED, the axis has flipped and the new axis is GREEN with its
\* own green duration. GREEN never ends while the decremented timer is > 0.
C4_FixedCycleTiming ==
  light_set.detection = "time_cycle" =>
     /\ nsteps < MaxSteps => C4_AfterSteps
     /\ call.op = "step" => C4_OneStep

\* green 3, yellow 1: after step 4 east-west is GREEN with its own timer
C4_Witness ==
  /\ light_set.detection = "time_cycle"
  /\ light_set.y_green_time = 3 /\ light_set.yellow_time = 1
  /\ light_set.x_green_time = 2
  /\ call.op = "step" /\ nsteps = 4
  /\ ~light_set.y_turn /\ light_set.current_state = "GREEN"
  /\ light_set.current_timer = 2
  /\ AllShow(light_set.north_south_lights, "RED")

\* the last call was a detection_cycle step() taken in phase GREEN
DemandStepInGreen ==
  /\ call.op = "step"
  /\ prev.detection = "detection_cycle"
  /\ prev.current_state = "GREEN"

\* C5: demand switch: in detection_cycle mode a step() taken in phase GREEN
\* with no vehicle waiting on the active axis and at least one waiting on the
\* inactive axis sets the phase to YELLOW with timer = yellow_time and turns
\* all active signals YELLOW, also when the green timer has not expired.
C5_DemandSwitch ==
  ( /\ DemandStepInGreen
    /\ WaitingOn(prev, call.arg, ActiveAxis(prev)) = 0
    /\ WaitingOn(prev, call.arg, InactiveAxis(prev)) >= 1 )
  => /\ light_set.current_state = "YELLOW"
     /\ light_set.current_timer = prev.yellow_time
     /\ light_set.y_turn = prev.y_turn
     /\ AllShow(ActiveLights(light_set), "YELLOW")
     /\ AllShow(InactiveLights(light_set), "RED")

\* the switch happened with two or more green steps still to go
C5_Witness ==
  /\ DemandStepInGreen
  /\ prev.current_timer >= 3
  /\ WaitingOn(prev, call.arg, ActiveAxis(prev)) = 0
  /\ WaitingOn(prev, call.arg, InactiveAxis(prev)) >= 1
  /\ light_set.current_state = "YELLOW"

C7_InitialAndReset ==
  call.op \in {"init", "reset"} =>
     /\ light_set.y_turn
     /\ light_set.current_state = "GREEN"
     /\ light_set.current_timer = light_set.y_green_time
     /\ AllShow(light_set.north_south_lights, "GREEN")
     /\ AllShow(light_set.east_west_lights, "RED")
     /\ PositionsOf(light_set.north_south_lights)
           = PositionsOf(prev.north_south_lights)
     /\ PositionsOf(light_set.east_west_lights)
           = PositionsOf(prev.east_west_lights)
     /\ Len(light_set.north_south_lights) = 2 * NumLanes
     /\ Len(light_set.east_west_lights) = 2 * NumLanes

\* reset() called while east-west was YELLOW
C7_Witness ==
  /\ call.op = "reset"
  /\ ~prev.y_turn /\ prev.current_state = "YELLOW"
  /\ prev.current_timer # prev.y_green_time
  /\ light_set.y_turn

\* C8: an unknown control mode is rejected at construction: step() is never
\* called on a controller whose mode is not one of the two recognised ones.
C8_UnknownModeRejected ==
  call.op = "step" => light_set.detection \in Modes

----------------------------------------------------------------------------
(* Properties of Car.step (SpecCar) *)

\* the vehicle the last Car.step was applied to, before the call
Stepped == call.arg.cars[call.idx]
\* its next cell
NextCell(c) == << c.position[1] + c.direction[1], c.position[2] + c.direction[2] >>
\* another vehicle of the scene stood on the cell
OtherOn(cell) ==
  \E j \in DOMAIN call.arg.cars : j # call.idx /\ call.arg.cars[j].position = cell
\* the vehicle stood on a light showing one of the colours
OnLight(c, colours) ==
  \E k \in DOMAIN get_all_lights(light_set) :
     /\ get_all_lights(light_set)[k].position = c.position
     /\ get_all_lights(light_set)[k].state \in colours
\* the call left the vehicle where it was, one tick more idle
Idled ==
  /\ cars[call.idx].position = Stepped.position
  /\ cars[call.idx].idle_time = Stepped.idle_time + 1
  /\ ~cars[call.idx].has_moved

\* C9: a queued vehicle never moves: when step() is called and another
\* vehicle occupies the next cell, the position is unchanged, idleTime grows
\* by exactly 1 and hasMoved is false, whatever the signals show.
C9_QueuedNeverMoves ==
  (call.op = "car_step" /\ OtherOn(NextCell(Stepped))) => Idled

\* a follower, not on a signal cell, behind a leader standing on a RED light
C9_Witness ==
  /\ call.op = "car_step"
  /\ \E j \in DOMAIN call.arg.cars :
        /\ j # call.idx
        /\ call.arg.cars[j].position = NextCell(Stepped)
        /\ call.arg.cars[j].direction = Stepped.direction
        /\ OnLight(call.arg.cars[j], {"RED"})
  /\ ~OnLight(Stepped, Colours)
  /\ Stepped.has_moved
  /\ Idled

\* C10: stop on RED/YELLOW: a vehicle standing exactly on a signal that is
\* RED or YELLOW does not leave the cell in that step: position unchanged,
\* idleTime + 1, hasMoved false; a vehicle on a signal cell advances only
\* when that signal is GREEN.
C10_StopOnRedYellow ==
  call.op = "car_step" =>
     /\ OnLight(Stepped, {"RED", "YELLOW"}) => Idled
     /\ (OnLight(Stepped, Colours) /\ cars[call.idx].position # Stepped.position)
           => OnLight(Stepped, {"GREEN"})

\* a vehicle held on a YELLOW light with the next cell free
C10_Witness ==
  /\ call.op = "car_step"
  /\ OnLight(Stepped, {"YELLOW"})
  /\ ~OtherOn(NextCell(Stepped))
  /\ Idled

\* the call moved the vehicle one cell along its direction, idle time as before
Moved ==
  /\ cars[call.idx].position = NextCell(Stepped)
  /\ cars[call.idx].idle_time = Stepped.idle_time
  /\ cars[call.idx].has_moved

\* C11: move-or-idle dichotomy: every step() does exactly one of (a) position
\* becomes position + direction, hasMoved = true, idleTime unchanged, exactly
\* when the next cell is free of other vehicles and the vehicle is not on a
\* RED/YELLOW signal cell, or (b) position unchanged, hasMoved = false,
\* idleTime + 1. hasMoved after the step is true iff the vehicle moved in that
\* step, whatever the flag was before.
C11_MoveOrIdle ==
  call.op = "car_step" =>
     /\ Moved \/ Idled
     /\ ~(Moved /\ Idled)
     /\ Moved <=> (~OtherOn(NextCell(Stepped))
                     /\ ~OnLight(Stepped, {"RED", "YELLOW"}))
     /\ cars[call.idx].has_moved <=> (cars[call.idx].position # Stepped.position)
     /\ cars[call.idx].direction = Stepped.direction
     /\ cars[call.idx].id = Stepped.id
     /\ \A j \in DOMAIN cars : j # call.idx => cars[j] = call.arg.cars[j]

\* a vehicle that had not moved before, standing on a GREEN light with a free
\* next cell, moved one cell
C11_Witness ==
  /\ call.op = "car_step"
  /\ OnLight(Stepped, {"GREEN"})
  /\ ~OtherOn(NextCell(Stepped))
  /\ ~Stepped.has_moved
  /\ Moved

----------------------------------------------------------------------------
(* Properties of the engine (Spec) *)

Spawned == call.spawned

\* an update phase in which every vehicle reads the positions the phase
\* started from
snapshot_step_cars(cs, lights) ==
  [k \in DOMAIN cs |-> car_step(cs[k], lights, cs)]

\* the orders in which the vehicles of a list can be processed
Orders(cs) ==
  { o \in [DOMAIN cs -> DOMAIN cs] :
       \A a \in DOMAIN cs : \A b \in DOMAIN cs : a # b => o[a] # o[b] }

RECURSIVE step_cars_in_order(_, _, _, _)
\* the update loop of the engine visiting the vehicles in a given order
step_cars_in_order(order, k, cs, lights) ==
  IF k > Len(cs) THEN cs
  ELSE step_cars_in_order(order, k + 1,
          [cs EXCEPT ![order[k]] = car_step(cs[order[k]], lights, cs)], lights)

\* C12: snapshot semantics / order independence: in the update phase of a
\* tick every vehicle's occupancy check reads the other vehicles' positions
\* as of the start of the phase, so the vehicles left by the tick are those
\* of a phase computed from the start-of-phase list, and every processing
\* order of the vehicles gives the positions, idle times and flags the
\* engine's own order gave.
C12_SnapshotSemantics ==
  call.op = "tick" =>
     /\ cars = remove_completed_cars(
                  [env  |-> Spawned.env,
                   cars |-> snapshot_step_cars(Spawned.cars,
                                               get_all_lights(light_set))]).cars
     /\ \A o \in Orders(Spawned.cars) :
           cars = remove_completed_cars(
                    [env  |-> Spawned.env,
                     cars |-> step_cars_in_order(o, 1, Spawned.cars,
                                                 get_all_lights(light_set))]).cars

\* the vehicle stood on a light that showed one of the colours before the
\* last call
OnLightBefore(c, colours) ==
  \E k \in DOMAIN get_all_lights(prev) :
     /\ get_all_lights(prev)[k].position = c.position
     /\ get_all_lights(prev)[k].state \in colours

\* the vehicles the last tick created
NewCars == { Spawned.cars[k] : k \in (Len(call.arg.cars) + 1)..Len(Spawned.cars) }

\* the last tick left the vehicle where it was, one tick more idle
IdledInTick(a) ==
  \E k \in DOMAIN cars :
     /\ cars[k].id = a.id
     /\ cars[k].position = a.position
     /\ cars[k].idle_time = a.idle_time + 1
     /\ ~cars[k].has_moved

\* the last tick moved the vehicle one cell: it stands there, or that cell
\* is outside the grid and the vehicle is gone
MovedInTick(a) ==
  IF is_off_grid([a EXCEPT !.position = NextCell(a)], grid_width, grid_height)
  THEN \A k \in DOMAIN cars : cars[k].id # a.id
  ELSE \E k \in DOMAIN cars :
          /\ cars[k].id = a.id
          /\ cars[k].position = NextCell(a)
          /\ cars[k].idle_time = a.idle_time
          /\ cars[k].has_moved

\* no vehicle of the tick stood on the cell or was about to enter it
CellStaysFree(a, cell) ==
  \A k \in DOMAIN Spawned.cars :
     Spawned.cars[k].id # a.id =>
        /\ Spawned.cars[k].position # cell
        /\ NextCell(Spawned.cars[k]) # cell

C14_ControllerSeesVehicles ==
  call.op = "tick" =>
     /\ light_set = light_set_step(prev, [given |-> TRUE, cars |-> call.arg.cars])
     /\ Len(call.arg.cars) > 0 =>
           call.step_argument = [given |-> TRUE, cars |-> call.arg.cars]

\* the vehicle is gone after the last tick
RemovedInTick(a) == \A j \in DOMAIN cars : cars[j].id # a.id

RECURSIVE IdleOfRemoved(_)
\* the idle time, summed from the k-th vehicle of the tick on, of the
\* vehicles the last tick removed (a vehicle leaves by a move, which keeps
\* its idle time)
IdleOfRemoved(k) ==
  IF k > Len(Spawned.cars) THEN 0
  ELSE (IF RemovedInTick(Spawned.cars[k]) THEN Spawned.cars[k].idle_time ELSE 0)
       + IdleOfRemoved(k + 1)

\* C15: idle time folded exactly once: a vehicle's idleTime never decreases
\* while it is active, and every tick adds to cumulativeIdleOfCompleted the
\* idleTime of each vehicle it removes, so that the counter is the sum over
\* all removed vehicles of the idleTime each had when it was removed.
C15_IdleFoldedOnce ==
  call.op = "tick" =>
     /\ \A k \in DOMAIN cars : \A j \in DOMAIN call.arg.cars :
           cars[k].id = call.arg.cars[j].id =>
              cars[k].idle_time >= call.arg.cars[j].idle_time
     /\ cumulative_idle_of_completed(env) =
           cumulative_idle_of_completed(call.env) + IdleOfRemoved(1)

InGrid(cell) ==
  /\ cell[1] \in 0..(grid_width - 1)
  /\ cell[2] \in 0..(grid_height - 1)

\* the vehicle stood on the last in-grid cell of its path when the last tick
\* began, nothing ahead of it and no RED or YELLOW light under it
AboutToExit(a) ==
  /\ InGrid(a.position)
  /\ ~InGrid(NextCell(a))
  /\ \A k \in DOMAIN Spawned.cars :
        Spawned.cars[k].id # a.id => Spawned.cars[k].position # NextCell(a)
  /\ ~OnLight(a, {"RED", "YELLOW"})

\* the last tick removed the vehicle, one cell further and marked completed
CompletedInTick(a) ==
  /\ RemovedInTick(a)
  /\ \E r \in DOMAIN call.removed :
        /\ call.removed[r].id = a.id
        /\ call.removed[r].position = NextCell(a)
        /\ call.removed[r].completed

OccupiedAtStart(cell) ==
  \E k \in DOMAIN call.arg.cars : call.arg.cars[k].position = cell

\* the vehicles the last tick created on the cell
CreatedOn(cell) ==
  { k \in (Len(call.arg.cars) + 1)..Len(Spawned.cars) :
       Spawned.cars[k].position = cell }

C21_SpawnCap ==
  env.max_cars.given => env.total_cars_spawned <= env.max_cars.value

\* C22: duration cap flag: every tick advances the clock by exactly 1, and
\* when a duration cap is configured the running flag is false from the end
\* of the first tick after which clock >= cap on and true before that; the
\* flag stays true when no cap is configured.
C22_DurationCapFlag ==
  /\ call.op = "tick" => env.time = call.env.time + 1
  /\ call.op = "reset" => env.time = 0
  /\ env.is_running <=>
        (env.simulation_duration.given
            => env.time < env.simulation_duration.value)

FreshLightSet ==
  TrafficLightSetInit(light_set.y_green_time, light_set.x_green_time,
                      light_set.yellow_time, light_set.detection)

FreshEnv == EnvironmentInit(env.max_cars, env.simulation_duration)

-----------------------------------------------------------------------------
(* Properties of the read-only queries (SpecObs) *)

\* the grid value the colour of a signal stands for
ColourCode(colour) ==
  IF colour = "RED" THEN 2 ELSE IF colour = "YELLOW" THEN 3 ELSE 4

\* the signals of both axes
SignalsOf(s) ==
  {s.north_south_lights[i] : i \in DOMAIN s.north_south_lights}
    \cup {s.east_west_lights[i] : i \in DOMAIN s.east_west_lights}

-----------------------------------------------------------------------------
(* Further properties of the signal controller (SpecCtl) *)

Axes == {"NS", "EW"}

\* the vehicles of a step() argument that have not moved
Stopped(arg) ==
  [arg EXCEPT !.cars = SelectSeq(@, LAMBDA c : ~c.has_moved)]

\* C27: waiting count: for every collection handed to step() the count of
\* an axis is the number of vehicles with hasMoved false that have a signal
\* of the axis within Chebyshev distance 2; a vehicle near several signals
\* of the axis counts once, a vehicle with hasMoved true never counts, and
\* an empty or absent collection gives 0.
C27_WaitingCount ==
  call.op = "step"
    => \A axis \in Axes :
          /\ count_waiting_cars(light_set, call.arg, axis)
                = WaitingOn(light_set, call.arg, axis)
          /\ count_waiting_cars(light_set, call.arg, axis) <= Len(call.arg.cars)
          /\ count_waiting_cars(light_set, call.arg, axis)
                = count_waiting_cars(light_set, Stopped(call.arg), axis)
          /\ (~call.arg.given \/ call.arg.cars = <<>>)
                => count_waiting_cars(light_set, call.arg, axis) = 0

\* a step whose collection holds a stopped vehicle near both north-south
\* signals, a stopped one far from every signal and a moving one near a
\* signal
C27_Witness ==
  /\ call.op = "step"
  /\ call.arg.given
  /\ \E i \in DOMAIN call.arg.cars :
        /\ ~call.arg.cars[i].has_moved
        /\ \A j \in DOMAIN light_set.north_south_lights :
              Chebyshev(call.arg.cars[i].position,
                        light_set.north_south_lights[j].position) <= 2
  /\ \E i \in DOMAIN call.arg.cars :
        /\ ~call.arg.cars[i].has_moved
        /\ \A j \in DOMAIN get_all_lights(light_set) :
              Chebyshev(call.arg.cars[i].position,
                        get_all_lights(light_set)[j].position) > 2
  /\ \E i \in DOMAIN call.arg.cars :
        /\ call.arg.cars[i].has_moved
        /\ \E j \in DOMAIN get_all_lights(light_set) :
              Chebyshev(call.arg.cars[i].position,
                        get_all_lights(light_set)[j].position) <= 2
  /\ count_waiting_cars(light_set, call.arg, "NS") > 0

\* the last call was a detection_cycle step()
DemandStep ==
  /\ call.op = "step"
  /\ prev.detection = "detection_cycle"

\* no vehicle of the collection waits on either axis
NobodyWaits ==
  \A axis \in Axes : WaitingOn(prev, call.arg, axis) = 0

AxisLights(s, axis) ==
  IF axis = "NS" THEN s.north_south_lights ELSE s.east_west_lights

OtherAxis(axis) == IF axis = "NS" THEN "EW" ELSE "NS"

\* the colour changes a signal may make in one step
ColourSuccession ==
  { <<"GREEN", "YELLOW">>, <<"YELLOW", "RED">>, <<"RED", "GREEN">> }

\* C29: signal colour sequence: in a step() of either mode every signal
\* keeps its colour or goes GREEN -> YELLOW, YELLOW -> RED or RED -> GREEN
\* (never GREEN -> RED, never RED -> YELLOW); a signal turns GREEN only in
\* a step in which every signal of the other axis turns from YELLOW to RED;
\* and a YELLOW phase that a step ends has lasted exactly yellow_time steps.
C29_ColourSequence ==
  call.op = "step"
    => /\ \A axis \in Axes : \A i \in DOMAIN AxisLights(light_set, axis) :
             LET c0 == AxisLights(prev, axis)[i].state
                 c1 == AxisLights(light_set, axis)[i].state
             IN /\ c0 # c1 => <<c0, c1>> \in ColourSuccession
                /\ (c0 # "GREEN" /\ c1 = "GREEN")
                      => /\ AllShow(AxisLights(prev, OtherAxis(axis)), "YELLOW")
                         /\ AllShow(AxisLights(light_set, OtherAxis(axis)), "RED")
       /\ light_set.current_state = "YELLOW"
             => call.yellow_steps \in 1..light_set.yellow_time
       /\ (prev.current_state = "YELLOW" /\ light_set.current_state # "YELLOW")
             => call.yellow_steps = prev.yellow_time

\* a demand-responsive controller ended a YELLOW phase of two steps and
\* handed the green to the other axis
C29_Witness ==
  /\ call.op = "step"
  /\ prev.detection = "detection_cycle"
  /\ prev.current_state = "YELLOW" /\ light_set.current_state = "GREEN"
  /\ prev.yellow_time = 2 /\ call.yellow_steps = 2
  /\ AllShow(AxisLights(light_set, ActiveAxis(prev)), "RED")
  /\ AllShow(AxisLights(light_set, InactiveAxis(prev)), "GREEN")

-----------------------------------------------------------------------------
(* SpecFrame: Car.step and TrafficLightSet.step applied in any order to a
   controller and the two vehicles of a scene *)

InitFrame ==
  /\ light_set \in { TrafficLightSetInit(1, 1, 1, d) : d \in Modes }
  /\ \E a \in SceneCars(0), b \in SceneCars(1) :
        /\ a.position # b.position
        /\ cars = <<a, b>>
  /\ env = EnvironmentInit(None, None)
  /\ call = [op |-> "init", arg |-> NoArg, idx |-> 0]
  /\ prev = light_set
  /\ nsteps = 0

\* a step that clears has_moved on every vehicle of the list
VehicleStepCall_clear_all ==
  \E i \in DOMAIN cars :
     /\ nsteps < MaxCarSteps
     /\ cars' = [j \in DOMAIN cars |->
                   IF j = i THEN car_step(cars[i], get_all_lights(light_set), cars)
                   ELSE [cars[j] EXCEPT !.has_moved = FALSE]]
     /\ call' = [op |-> "car_step", arg |-> [given |-> TRUE, cars |-> cars], idx |-> i]
     /\ prev' = light_set
     /\ nsteps' = nsteps + 1
     /\ UNCHANGED <<light_set, env>>

\* cars[i].step(light_set.get_all_lights(), cars)
VehicleStepCall ==
  \E i \in DOMAIN cars :
     /\ nsteps < MaxCarSteps
     /\ cars' = [cars EXCEPT ![i] = car_step(cars[i], get_all_lights(light_set), cars)]
     /\ call' = [op |-> "car_step", arg |-> [given |-> TRUE, cars |-> cars], idx |-> i]
     /\ prev' = light_set
     /\ nsteps' = nsteps + 1
     /\ UNCHANGED <<light_set, env>>

\* light_set.step(cars)
ControllerStepCall ==
  /\ nsteps < MaxCarSteps
  /\ light_set' = light_set_step(light_set, [given |-> TRUE, cars |-> cars])
  /\ call' = [op |-> "light_set_step", arg |-> [given |-> TRUE, cars |-> cars],
              idx |-> 0]
  /\ prev' = light_set
  /\ nsteps' = nsteps + 1
  /\ UNCHANGED <<cars, env>>

NextFrame == VehicleStepCall \/ ControllerStepCall

SpecFrame == InitFrame /\ [][NextFrame]_vars

\* what a step may not change of a vehicle, and of a signal
VehicleFixed(c) == [id |-> c.id, direction |-> c.direction]
SignalFixed(l) == [position |-> l.position, direction |-> l.direction]

\* C30: frame of the two steps: a vehicle's step() leaves its id and its
\* direction, every other vehicle and every signal (colour and position) as
\* they were; the controller's step() leaves every vehicle and the position
\* and axis of every signal as they were, and the sets of vehicles and of
\* signals stay the same.
C30_StepFrames ==
  /\ call.op = "car_step"
        => /\ DOMAIN cars = DOMAIN call.arg.cars
           /\ VehicleFixed(cars[call.idx]) = VehicleFixed(call.arg.cars[call.idx])
           /\ \A j \in DOMAIN cars : j # call.idx => cars[j] = call.arg.cars[j]
           /\ light_set = prev
  /\ call.op = "light_set_step"
        => /\ cars = call.arg.cars
           /\ DOMAIN get_all_lights(light_set) = DOMAIN get_all_lights(prev)
           /\ \A k \in DOMAIN get_all_lights(light_set) :
                 SignalFixed(get_all_lights(light_set)[k])
                   = SignalFixed(get_all_lights(prev)[k])
           /\ Len(light_set.north_south_lights) = Len(prev.north_south_lights)

\* a controller step changed the colours after a vehicle step had held a
\* vehicle, with another vehicle of the scene on the move
C30_Witness ==
  /\ call.op = "light_set_step"
  /\ \E k \in DOMAIN get_all_lights(light_set) :
        get_all_lights(light_set)[k].state # get_all_lights(prev)[k].state
  /\ \E i, j \in DOMAIN cars :
        /\ cars[i].has_moved /\ cars[i].idle_time = 0
        /\ ~cars[j].has_moved /\ cars[j].idle_time > 0

-----------------------------------------------------------------------------
(* Timer bounds and liveness of the signal controller (SpecCtl) *)

\* the configured duration of the phase the controller is in
PhaseDuration(s) ==
  IF s.current_state = "YELLOW" THEN s.yellow_time
  ELSE IF s.y_turn THEN s.y_green_time ELSE s.x_green_time

\* C31: timer bounds: with positive durations, in either mode the timer is
\* never 0 or negative between steps; after every step() it is at least 1
\* and at most the configured duration of the current phase; and a GREEN
\* phase never lasts longer than the green duration of its axis, also in
\* detection_cycle mode.
C31_TimerBounds ==
  light_set.detection \in Modes
    => /\ light_set.current_timer >= 1
       /\ light_set.current_timer <= PhaseDuration(light_set)
       /\ call.op = "step"
             => call.green_steps
                  <= (IF light_set.y_turn THEN light_set.y_green_time
                                          ELSE light_set.x_green_time)

\* a detection_cycle GREEN of the longest duration ran to its expiry with
\* vehicles waiting on both axes
C31_Witness ==
  /\ DemandStep
  /\ prev.current_state = "GREEN" /\ light_set.current_state = "YELLOW"
  /\ prev.current_timer = 1
  /\ PhaseDuration(prev) = MaxGreen
  /\ call.green_steps = MaxGreen
  /\ WaitingOn(prev, call.arg, ActiveAxis(prev)) >= 1
  /\ WaitingOn(prev, call.arg, InactiveAxis(prev)) >= 1

\* C32: signal liveness: while step() keeps being called, in both modes and
\* for every sequence of vehicle collections each axis is GREEN again and
\* again, and the active axis never stays the same for more than its green
\* duration plus yellow_time states in a row, so that the RED axis is GREEN
\* within that many steps.
C32_SignalLiveness ==
  /\ []((call.op = "step" /\ light_set.detection \in Modes)
          => call.axis_steps <= (IF light_set.y_turn THEN light_set.y_green_time
                                                     ELSE light_set.x_green_time)
                                  + light_set.yellow_time)
  /\ []<>(light_set.detection \in Modes
            => AllShow(light_set.north_south_lights, "GREEN"))
  /\ []<>(light_set.detection \in Modes
            => AllShow(light_set.east_west_lights, "GREEN"))

\* north-south turned GREEN for the second time, in detection_cycle mode,
\* with a vehicle waiting on it
C32_Witness ==
  /\ DemandStep
  /\ ~prev.y_turn /\ prev.current_state = "YELLOW"
  /\ light_set.y_turn
  /\ AllShow(light_set.north_south_lights, "GREEN")
  /\ AllShow(light_set.east_west_lights, "RED")
  /\ nsteps >= prev.y_green_time + prev.x_green_time + 2 * prev.yellow_time
  /\ WaitingOn(prev, call.arg, "NS") >= 1

-----------------------------------------------------------------------------
(* Conservation and progress of the vehicles (Spec, SpecLive) *)

\* the ids of the vehicles of a list
IdsOf(cs) == { cs[i].id : i \in DOMAIN cs }

InitLive ==
  /\ light_set \in { TrafficLightSetInit(g, g, y, d) :
                        g \in 1..MaxEnvGreen, y \in 1..MaxEnvYellow,
                        d \in Modes }
  /\ cars = <<>>
  /\ env = EnvironmentInit(None, None)
  /\ call = [op |-> "init", arg |-> NoArg, idx |-> 0, done |-> {}]
  /\ prev = light_set
  /\ nsteps = 0

\* Environment.step, the result of each phase bound as a value; done = the
\* directions of the vehicles removed so far
TickLive ==
  \E successes \in SUBSET Directions :
     /\ cars # <<>> \/ env.time < MaxSpawnTime
     /\ env.time >= MaxSpawnTime => successes = {}
     /\ \E lights \in {controller_update(light_set, cars)} :
        \E spawned \in {spawn_phase([env |-> env, cars |-> cars], 1, successes)} :
        \E moved \in {step_cars(1, spawned.cars, get_all_lights(lights))} :
        \E kept \in {remove_completed_cars([env |-> spawned.env, cars |-> moved])} :
           /\ spawned.env.total_cars_spawned <= MaxLiveSpawned
           /\ light_set' = lights
           /\ cars' = kept.cars
           /\ env' = [kept.env EXCEPT !.time = @ + 1]
           /\ call' = [op |-> "tick", arg |-> NoArg, idx |-> 0,
                       done |-> call.done \cup
                                  { kept.removed[i].direction :
                                       i \in DOMAIN kept.removed }]
     /\ prev' = light_set
     /\ UNCHANGED nsteps

SpecLive == InitLive /\ [][TickLive]_vars /\ WF_vars(TickLive)

\* some vehicles block each other in a cycle: the next cell of each of them
\* is the cell of another of them
CyclicBlock ==
  \E S \in SUBSET DOMAIN cars :
     /\ S # {}
     /\ \A i \in S : \E j \in S :
           j # i /\ cars[j].position = NextCell(cars[i])

====
